---- MODULE Spec2Model ----
(***************************************************************************)
(* A model of the QR generator script src/1.py: generate_qr (encode,       *)
(* render, optional logo overlay, save) with its helpers                   *)
(* _make_styled_image and _paste_logo_center, and main with normalize_url, *)
(* is_likely_valid_url, sanitize_filename and ensure_png_extension.        *)
(*                                                                         *)
(* Strings are sequences of tokens (a token is a short run of characters), *)
(* images are pixel grids.  The qrcode and Pillow libraries are not part   *)
(* of the script: they are modelled by what the script asks of them (an    *)
(* encoder that picks the matrix side from the amount of data, a           *)
(* rasteriser that draws box_size pixels per module in the colours it is   *)
(* given, a paste that touches only the pasted box).                       *)
(***************************************************************************)
EXTENDS Integers, Sequences, FiniteSets, TLC

VARIABLES pc, args, styledOK, qr, img, base, lg, err, writes, file, file0,
          prev, mpc, argv, murl, mout, exitStatus, genCalls

vars == <<pc, args, styledOK, qr, img, base, lg, err, writes, file, file0,
          prev, mpc, argv, murl, mout, exitStatus, genCalls>>

pipeVars == <<pc, args, qr, img, base, lg, err, writes, file, file0>>
mainVars == <<mpc, argv, murl, mout, exitStatus, genCalls>>

(***************************************************************************)
(* Bounds of the model.                                                    *)
(***************************************************************************)
\* side of the smallest matrix the encoder produces (21 for a real QR code)
MinSide == 2
\* number of tokens the largest matrix can hold
Capacity == 4
\* largest box_size tried
MaxBox == 2
\* largest border tried
MaxBorder == 1
\* longest URL typed, in tokens
MaxUrlLen == 4
\* longest -o path typed, in tokens
MaxPathLen == 3

(***************************************************************************)
(* Program constants.                                                      *)
(***************************************************************************)
MinLogoPct == 5
MaxLogoPct == 40
DefaultLogoPct == 20

None == "None"

Max(a, b) == IF a > b THEN a ELSE b
Min(a, b) == IF a < b THEN a ELSE b

\* Python truthiness of a str | None argument
Truthy(s) == s # None /\ s # ""

(***************************************************************************)
(* Images: a pixel grid of colour names.                                   *)
(***************************************************************************)
Pixels(w, h) == (0 .. (w - 1)) \X (0 .. (h - 1))

NoImage == [kind |-> "none", w |-> 0, h |-> 0, px |-> [p \in {} |-> "white"]]
OldFile == [kind |-> "old", w |-> 0, h |-> 0, px |-> [p \in {} |-> "white"]]
PartialFile == [kind |-> "partial", w |-> 0, h |-> 0, px |-> [p \in {} |-> "white"]]

\* a colour specifier the rasteriser accepts
ColorOK(c) == c \in {"black", "white", "red"}

(***************************************************************************)
(* The encoder (qrcode.QRCode): add_data appends to the data list, make    *)
(* with fit=True picks the smallest side that holds the data and fails     *)
(* when no side does.                                                      *)
(***************************************************************************)
RECURSIVE Flatten(_)
Flatten(dl) == IF dl = <<>> THEN <<>> ELSE Head(dl) \o Flatten(Tail(dl))

TokenCode(t) ==
  CASE t = "a" -> 1
    [] t = "b" -> 2
    [] t = "https" -> 3
    [] t = "http" -> 5
    [] t = "://" -> 7
    [] OTHER -> 4

RECURSIVE Weight(_)
Weight(s) == IF s = <<>> THEN 0 ELSE TokenCode(Head(s)) + Weight(Tail(s))

NoModules == [rc \in {} |-> FALSE]

NoQR == [data_list |-> <<>>, box_size |-> 0, border |-> 0, side |-> 0,
         modules |-> NoModules]

\* one encoder object kept from call to call
QRCode_shared(box_size, border) ==
  [data_list |-> qr.data_list, box_size |-> box_size, border |-> border, side |-> 0,
   modules |-> NoModules]

\* qrcode.QRCode(version=None, error_correction=M, box_size, border)
QRCode(box_size, border) ==
  [data_list |-> <<>>, box_size |-> box_size, border |-> border, side |-> 0,
   modules |-> NoModules]

add_data(q, data) == [q EXCEPT !.data_list = Append(@, data)]

Fits(q) == Len(Flatten(q.data_list)) <= Capacity

\* qr.make(fit=True), for a q that fits: the side and the matrix
make(q) ==
  LET data == Flatten(q.data_list)
      side == MinSide + (Len(data) \div 3)
      w == Weight(data)
  IN [q EXCEPT !.side = side,
               !.modules = [rc \in (0 .. (side - 1)) \X (0 .. (side - 1)) |->
                              (rc[1] = 0 /\ rc[2] = 0) \/ (rc[1] + rc[2] + w) % 2 = 0]]

\* the module at row r, column c is dark; outside the matrix nothing is
IsDark(q, r, c) == <<r, c>> \in DOMAIN q.modules /\ q.modules[<<r, c>>]

PixelSize(q) == (q.side + 2 * q.border) * q.box_size

(***************************************************************************)
(* Rasterisation.  A pixel (x, y) lies in the cell of module               *)
(* (y div box - border, x div box - border) at offset (x mod box,          *)
(* y mod box); a drawer says which offsets of a dark module are inked.     *)
(***************************************************************************)
Inset(box) == IF box > 1 THEN 1 ELSE 0

DrawerCovers(drawer, q, r, c, dx, dy) ==
  LET b == q.box_size
      last == b - 1
  IN CASE drawer = "SquareModuleDrawer" -> TRUE
       [] drawer = "GappedSquareModuleDrawer" ->
            dx < b - Inset(b) /\ dy < b - Inset(b)
       [] drawer = "CircleModuleDrawer" ->
            (2 * dx + 1 - b) * (2 * dx + 1 - b) + (2 * dy + 1 - b) * (2 * dy + 1 - b) <= b * b
       [] drawer = "RoundedModuleDrawer" ->
            \/ b = 1
            \/ ~(dx = last /\ dy = last)
            \/ IsDark(q, r, c + 1)
            \/ IsDark(q, r + 1, c)
       [] drawer = "VerticalBarsDrawer" ->
            dx < b - Inset(b) /\ (dy < last \/ b = 1 \/ IsDark(q, r + 1, c))
       [] drawer = "HorizontalBarsDrawer" ->
            dy < b - Inset(b) /\ (dx < last \/ b = 1 \/ IsDark(q, r, c + 1))
       [] OTHER -> TRUE

Render(q, drawer, fill_color, back_color) ==
  [kind |-> "img", w |-> PixelSize(q), h |-> PixelSize(q),
   px |-> [p \in Pixels(PixelSize(q), PixelSize(q)) |->
             LET r == (p[2] \div q.box_size) - q.border
                 c == (p[1] \div q.box_size) - q.border
             IN IF IsDark(q, r, c)
                   /\ DrawerCovers(drawer, q, r, c, p[1] % q.box_size, p[2] % q.box_size)
                THEN fill_color ELSE back_color]]

\* qr.make_image(fill_color=..., back_color=...): raises on a colour it cannot parse
PlainOK(fill_color, back_color) == ColorOK(fill_color) /\ ColorOK(back_color)

PlainImage(q, fill_color, back_color) ==
  Render(q, "SquareModuleDrawer", fill_color, back_color)

(***************************************************************************)
(* _make_styled_image (lines 50-79).                                       *)
(***************************************************************************)
SixStyles == {"square", "gapped", "circle", "rounded", "vbars", "hbars"}

\* a lookup whose default is not the square drawer
DrawerFor_gapped(style) ==
  CASE style = "square" -> "SquareModuleDrawer"
    [] style = "gapped" -> "GappedSquareModuleDrawer"
    [] style = "circle" -> "CircleModuleDrawer"
    [] style = "rounded" -> "RoundedModuleDrawer"
    [] style = "vbars" -> "VerticalBarsDrawer"
    [] style = "hbars" -> "HorizontalBarsDrawer"
    [] OTHER -> "GappedSquareModuleDrawer"

\* drawer_map.get(style, SquareModuleDrawer)
DrawerFor(style) ==
  CASE style = "square" -> "SquareModuleDrawer"
    [] style = "gapped" -> "GappedSquareModuleDrawer"
    [] style = "circle" -> "CircleModuleDrawer"
    [] style = "rounded" -> "RoundedModuleDrawer"
    [] style = "vbars" -> "VerticalBarsDrawer"
    [] style = "hbars" -> "HorizontalBarsDrawer"
    [] OTHER -> "SquareModuleDrawer"

\* the body of the try block: the import of the styled factory works and
\* the factory accepts the colours
StyledWorks(fill_color, back_color) == styledOK /\ PlainOK(fill_color, back_color)

\* a fallback that forgets the colours
StyledFallback_defaults(q, fill_color, back_color) ==
  [raised |-> ~PlainOK(fill_color, back_color),
   img |-> IF PlainOK(fill_color, back_color)
           THEN PlainImage(q, "black", "white") ELSE NoImage]

\* the except branch: the default rendering, not guarded by anything
StyledFallback(q, fill_color, back_color) ==
  [raised |-> ~PlainOK(fill_color, back_color),
   img |-> IF PlainOK(fill_color, back_color)
           THEN PlainImage(q, fill_color, back_color) ELSE NoImage]

\* the styled attempt without its try/except
make_styled_image_nocatch(q, fill_color, back_color, style) ==
  IF StyledWorks(fill_color, back_color)
  THEN [raised |-> FALSE, img |-> Render(q, DrawerFor(style), fill_color, back_color)]
  ELSE [raised |-> TRUE, img |-> NoImage]

make_styled_image(q, fill_color, back_color, style) ==
  IF StyledWorks(fill_color, back_color)
  THEN [raised |-> FALSE, img |-> Render(q, DrawerFor(style), fill_color, back_color)]
  ELSE StyledFallback(q, fill_color, back_color)

\* generate_qr, lines 125-132: the image for the style, or the error raised
RenderFor(q, fill_color, back_color, style) ==
  IF Truthy(style) /\ style # "square"
  THEN make_styled_image(q, fill_color, back_color, style)
  ELSE [raised |-> ~PlainOK(fill_color, back_color),
        img |-> IF PlainOK(fill_color, back_color)
                THEN PlainImage(q, fill_color, back_color) ELSE NoImage]

(***************************************************************************)
(* _paste_logo_center (lines 82-101).                                      *)
(***************************************************************************)
\* os.path.isfile
IsFile(path) == path \in {"corrupt.png", "logo.png", "tall.png"}

\* Image.open(path).convert("RGBA") succeeds
Decodable(path) == path \in {"logo.png", "tall.png"}

\* the decoded logo; "clear" is a fully transparent pixel
LogoImage(path) ==
  IF path = "tall.png"
  THEN [kind |-> "img", w |-> 1, h |-> 3, px |-> [p \in Pixels(1, 3) |-> "logo"]]
  ELSE [kind |-> "img", w |-> 2, h |-> 1,
        px |-> [p \in Pixels(2, 1) |-> IF p[1] = 0 THEN "logo" ELSE "clear"]]

\* max(5, min(int(logo_pct or 20), 40)): 0 is falsy, so it reads as 20
LogoPct(logo_pct) ==
  LET given == IF logo_pct = 0 THEN DefaultLogoPct ELSE logo_pct
  IN Max(MinLogoPct, Min(given, MaxLogoPct))

\* logo.resize((tw, th)): each target pixel takes the source pixel it covers
Resize(logo, tw, th) ==
  [kind |-> "img", w |-> tw, h |-> th,
   px |-> [p \in Pixels(tw, th) |->
             logo.px[<<(p[1] * logo.w) \div tw, (p[2] * logo.h) \div th>>]]]

\* a position rounded up instead of down
CenterPos_up(qr_w, qr_h, tw, th) == <<(qr_w - tw + 1) \div 2, (qr_h - th + 1) \div 2>>

\* ((qr_w - target_w) // 2, (qr_h - target_h) // 2)
CenterPos(qr_w, qr_h, tw, th) == <<(qr_w - tw) \div 2, (qr_h - th) \div 2>>

\* the resized logo taken for the image
Paste_replace(pil_img, logo, pos) == logo

\* pil_img.paste(logo, pos, mask=logo): in place, clipped to the image
Paste(pil_img, logo, pos) ==
  [pil_img EXCEPT !.px =
     [p \in DOMAIN pil_img.px |->
        LET lx == p[1] - pos[1]
            ly == p[2] - pos[2]
        IN IF lx \in 0 .. (logo.w - 1) /\ ly \in 0 .. (logo.h - 1)
              /\ logo.px[<<lx, ly>>] # "clear"
           THEN logo.px[<<lx, ly>>] ELSE pil_img.px[p]]]

NoLogo == [reached |-> "none", fault |-> "none", pct |-> 0, tw |-> 0, th |-> 0,
           pos |-> <<0, 0>>]

Faults == {"none", "pil", "resize", "paste"}

\* lines 92-97: the percentage, the target size and the position
LogoLocals(pil_img, logo, logo_pct) ==
  LET pct == LogoPct(logo_pct)
      tw == Max(1, (pil_img.w * pct) \div 100)
      th == Max(1, (logo.h * tw) \div logo.w)
  IN [pct |-> pct, tw |-> tw, th |-> th, pos |-> CenterPos(pil_img.w, pil_img.h, tw, th)]

\* a paste that raises after it has written the logo into the image
Composite_dirty(pil_img, logo, loc, fault) ==
  IF fault = "resize"
  THEN [img |-> pil_img, reached |-> "resize"]
  ELSE [img |-> Paste(pil_img, Resize(logo, loc.tw, loc.th), loc.pos),
        reached |-> IF fault = "paste" THEN "paste" ELSE "done"]

\* lines 96-100: resize and paste; a step that raises leaves the image as
\* it was
Composite(pil_img, logo, loc, fault) ==
  IF fault = "resize"
  THEN [img |-> pil_img, reached |-> "resize"]
  ELSE IF fault = "paste"
  THEN [img |-> pil_img, reached |-> "paste"]
  ELSE [img |-> Paste(pil_img, Resize(logo, loc.tw, loc.th), loc.pos),
        reached |-> "done"]

\* the image returned and the locals computed, when the step named by
\* fault raises ("none": no step raises)
paste_logo_center(pil_img, logo_path, logo_pct, fault) ==
  IF ~Truthy(logo_path) \/ ~IsFile(logo_path)
  THEN [img |-> pil_img, lg |-> [NoLogo EXCEPT !.reached = "guard"]]
  ELSE IF fault = "pil"
  THEN [img |-> pil_img, lg |-> [NoLogo EXCEPT !.reached = "import", !.fault = fault]]
  ELSE IF ~Decodable(logo_path)
  THEN [img |-> pil_img, lg |-> [NoLogo EXCEPT !.reached = "open"]]
  ELSE
    LET logo == LogoImage(logo_path)
        loc == LogoLocals(pil_img, logo, logo_pct)
        r == Composite(pil_img, logo, loc, fault)
    IN [img |-> r.img,
        lg |-> [reached |-> r.reached, fault |-> fault, pct |-> loc.pct,
                tw |-> loc.tw, th |-> loc.th, pos |-> loc.pos]]

(***************************************************************************)
(* The arguments generate_qr is called with.                               *)
(***************************************************************************)
TooLarge == [i \in 1 .. (Capacity + 1) |-> "a"]

PipeData == {<<"a">>, <<"a", "b", "a">>, TooLarge}

ColorPairs == {<<"black", "white">>, <<"red", "white">>, <<"bogus", "white">>}

Styles == SixStyles \cup {"foo", "", None}

LogoSizes == {-3, 0, 5, 20, 55}

\* (logo_path, logo_size): the size is read only when the logo decodes
LogoArgs ==
  ({None, "missing.png", "logos/", "corrupt.png"} \X {DefaultLogoPct})
    \cup ({"logo.png", "tall.png"} \X LogoSizes)

DefaultOut == <<"out", ".", "png">>

MkArgs(url, out, box, border, colors, style, logo) ==
  [url |-> url, output_path |-> out, box_size |-> box, border |-> border,
   fill_color |-> colors[1], back_color |-> colors[2], style |-> style,
   logo_path |-> logo[1], logo_size |-> logo[2]]

\* every style and colour pair without a logo, every logo with two styles
Args ==
  { MkArgs(d, DefaultOut, b, bd, cp, st, <<None, DefaultLogoPct>>) :
      d \in PipeData, b \in 1 .. MaxBox, bd \in 0 .. MaxBorder,
      cp \in ColorPairs, st \in Styles }
    \cup
  { MkArgs(d, DefaultOut, b, bd, cp, st, lo) :
      d \in {<<"a">>, <<"a", "b", "a">>}, b \in 1 .. MaxBox, bd \in 0 .. MaxBorder,
      cp \in {<<"black", "white">>, <<"bogus", "white">>}, st \in {"square", "vbars"},
      lo \in LogoArgs }

IdemArgs ==
  { MkArgs(d, DefaultOut, MaxBox, bd, cp, st, <<None, DefaultLogoPct>>) :
      d \in {<<"a">>, <<"a", "b", "a">>}, bd \in {0},
      cp \in {<<"black", "white">>, <<"red", "white">>},
      st \in {"square", "gapped", "foo"} }

NoArgs == MkArgs(<<>>, <<>>, 1, 0, <<"black", "white">>, "square", <<None, DefaultLogoPct>>)

\* what a call without a logo is a function of
Key(a) == <<a.url, a.box_size, a.border, a.fill_color, a.back_color, a.style>>

NoPrev == [set |-> FALSE, key |-> Key(NoArgs), image |-> NoImage]

(***************************************************************************)
(* generate_qr (lines 104-139), one action per stage.                      *)
(***************************************************************************)
\* entry into generate_qr: the frame of the call is new, the destination
\* holds what it held before
Begin(a) ==
  /\ args' = a
  /\ pc' = "encode"
  /\ img' = NoImage
  /\ base' = NoImage
  /\ lg' = NoLogo
  /\ err' = "none"
  /\ writes' = 0
  /\ file0' = file
  /\ UNCHANGED <<qr, file, styledOK>>

Call(a) ==
  /\ pc = "idle"
  /\ mpc = "off"
  /\ Begin(a)
  /\ UNCHANGED <<prev, mainVars>>

\* a later call of the same process; prev remembers the last image saved
\* by a call without a logo
CallAgain(a) ==
  /\ pc \in {"done", "raised"}
  /\ mpc = "off"
  /\ prev' = IF pc = "done" /\ ~Truthy(args.logo_path)
             THEN [set |-> TRUE, key |-> Key(args), image |-> file]
             ELSE prev
  /\ Begin(a)
  /\ UNCHANGED mainVars

\* lines 116-123
Encode ==
  /\ pc = "encode"
  /\ LET q == add_data(QRCode(args.box_size, args.border), args.url)
     IN IF Fits(q)
        THEN /\ qr' = make(q)
             /\ pc' = "render"
             /\ err' = err
        ELSE /\ qr' = q
             /\ pc' = "raised"
             /\ err' = "encoding"
  /\ UNCHANGED <<args, styledOK, img, base, lg, writes, file, file0, prev, mainVars>>

\* a rendering stage that already writes the base image
RenderStep_saves ==
  /\ pc = "render"
  /\ LET r == RenderFor(qr, args.fill_color, args.back_color, args.style)
     IN IF r.raised
        THEN /\ pc' = "raised"
             /\ err' = "render"
             /\ UNCHANGED <<img, base, file, writes>>
        ELSE /\ pc' = "logo"
             /\ img' = r.img
             /\ base' = r.img
             /\ err' = err
             /\ file' = r.img
             /\ writes' = writes + 1
  /\ UNCHANGED <<args, styledOK, qr, lg, file0, prev, mainVars>>

\* lines 125-132
RenderStep ==
  /\ pc = "render"
  /\ LET r == RenderFor(qr, args.fill_color, args.back_color, args.style)
     IN IF r.raised
        THEN /\ pc' = "raised"
             /\ err' = "render"
             /\ UNCHANGED <<img, base>>
        ELSE /\ pc' = "logo"
             /\ img' = r.img
             /\ base' = r.img
             /\ err' = err
  /\ UNCHANGED <<args, styledOK, qr, lg, writes, file, file0, prev, mainVars>>

\* lines 134-136
Overlay ==
  /\ pc = "logo"
  /\ IF Truthy(args.logo_path)
     THEN \E fault \in Faults :
            LET r == paste_logo_center(img, args.logo_path, args.logo_size, fault)
            IN /\ r.lg.fault = fault
               /\ img' = r.img
               /\ lg' = r.lg
     ELSE UNCHANGED <<img, lg>>
  /\ pc' = "save"
  /\ UNCHANGED <<args, styledOK, qr, base, err, writes, file, file0, prev, mainVars>>

\* lines 138-139: the write succeeds, fails leaving the destination as it
\* was, or fails part of the way
Save ==
  /\ pc = "save"
  /\ \E outcome \in {"ok", "refused", "partial"} :
       IF outcome = "ok"
       THEN /\ file' = img
            /\ writes' = writes + 1
            /\ pc' = "done"
            /\ err' = err
       ELSE /\ file' = IF outcome = "partial" THEN PartialFile ELSE file
            /\ writes' = IF outcome = "partial" THEN writes + 1 ELSE writes
            /\ pc' = "raised"
            /\ err' = "write"
  /\ UNCHANGED <<args, styledOK, qr, img, base, lg, file0, prev, mainVars>>

(***************************************************************************)
(* Strings of main: sequences of tokens.  " " is whitespace, ":" "//" "/"  *)
(* "." are the separators the parsers look for, the other tokens are runs  *)
(* of letters.                                                             *)
(***************************************************************************)
RECURSIVE LStrip(_)
LStrip(s) == IF s # <<>> /\ Head(s) = " " THEN LStrip(Tail(s)) ELSE s

RECURSIVE RStrip(_)
RStrip(s) ==
  IF s # <<>> /\ s[Len(s)] = " " THEN RStrip(SubSeq(s, 1, Len(s) - 1)) ELSE s

\* str.strip()
Strip(s) == RStrip(LStrip(s))

\* str.find / str.rfind of one token, 0 when absent
Find(s, toks) ==
  IF \E i \in 1 .. Len(s) : s[i] \in toks
  THEN CHOOSE i \in 1 .. Len(s) : s[i] \in toks /\ \A j \in 1 .. (i - 1) : s[j] \notin toks
  ELSE 0

RFind(s, toks) ==
  IF \E i \in 1 .. Len(s) : s[i] \in toks
  THEN CHOOSE i \in 1 .. Len(s) :
         s[i] \in toks /\ \A j \in (i + 1) .. Len(s) : s[j] \notin toks
  ELSE 0

\* runs of characters a URL scheme may consist of
SchemeTokens == {"http", "https", "ftp", "a"}

\* urllib.parse.urlparse: the scheme and the netloc
urlparse(url) ==
  LET i == Find(url, {":"})
      hasScheme == i > 1 /\ \A j \in 1 .. (i - 1) : url[j] \in SchemeTokens
      rest == IF hasScheme THEN SubSeq(url, i + 1, Len(url)) ELSE url
      after == SubSeq(rest, 2, Len(rest))
      d == Find(after, {"/", "//"})
  IN [scheme |-> IF hasScheme THEN SubSeq(url, 1, i - 1) ELSE <<>>,
      netloc |-> IF rest # <<>> /\ Head(rest) = "//"
                 THEN (IF d = 0 THEN after ELSE SubSeq(after, 1, d - 1))
                 ELSE <<>>]

\* lines 28-33
normalize_url(url) ==
  LET u == Strip(url)
  IN IF urlparse(u).scheme = <<>> THEN <<"https", ":", "//">> \o u ELSE u

\* lines 36-38
is_likely_valid_url(url) ==
  /\ urlparse(url).scheme \in {<<"http">>, <<"https">>}
  /\ urlparse(url).netloc # <<>>

\* lines 41-42
sanitize_filename(text) ==
  [i \in 1 .. Len(text) |-> IF text[i] \in SchemeTokens \cup {"-", "_"} THEN text[i] ELSE "-"]

\* os.path.splitext: the extension starts at the last dot of the last
\* component, unless only dots precede it there
splitext(p) ==
  LET sepIndex == RFind(p, {"/"})
      dotIndex == RFind(p, {"."})
  IN IF dotIndex > sepIndex /\ \E j \in (sepIndex + 1) .. (dotIndex - 1) : p[j] # "."
     THEN [root |-> SubSeq(p, 1, dotIndex - 1), ext |-> SubSeq(p, dotIndex, Len(p))]
     ELSE [root |-> p, ext |-> <<>>]

\* str.lower()
Lower(s) == [i \in 1 .. Len(s) |-> IF s[i] = "PNG" THEN "png" ELSE s[i]]

\* lines 45-47
ensure_png_extension(path) ==
  IF Lower(splitext(path).ext) = <<".", "png">>
  THEN path
  ELSE splitext(path).root \o <<".", "png">>

\* lines 173-176
AutoName(url) ==
  LET host == IF urlparse(url).netloc # <<>> THEN urlparse(url).netloc ELSE <<"qr">>
  IN <<"qr_">> \o sanitize_filename(host) \o <<"_", "ts", ".", "png">>

(***************************************************************************)
(* The command lines main is run with.                                     *)
(***************************************************************************)
RECURSIVE SeqsUpTo(_, _)
SeqsUpTo(S, n) ==
  IF n = 0 THEN {<<>>}
  ELSE LET shorter == SeqsUpTo(S, n - 1)
       IN shorter \cup { Append(q, t) : q \in shorter, t \in S }

UrlTokens == {"http", ":", "//", "a", " "}
PathTokens == {"a", ".", "png", "PNG", "/", " "}

Urls == SeqsUpTo(UrlTokens, MaxUrlLen)
Paths == SeqsUpTo(PathTokens, MaxPathLen)

MkArgv(url, typed, output, style) ==
  [url |-> url, typed |-> typed, output |-> output, style |-> style]

\* url is <<>> when no URL is on the command line (it is then typed at the
\* prompt), output is <<>> when -o is not given
Argvs ==
  { MkArgv(u, <<>>, o, "square") : u \in Urls \ {<<>>}, o \in {<<>>, <<"a", ".", "PNG">>} }
    \cup { MkArgv(<<"a">>, <<>>, o, "square") : o \in Paths }
    \cup { MkArgv(u, <<>>, <<"a">>, "circle") : u \in {<<"a">>, <<"ftp", ":", "//", "a">>} }
    \cup { MkArgv(<<>>, t, <<>>, "square") :
             t \in {<<>>, <<" ", "a", " ">>, <<"http", ":", "a">>} }

NoArgv == MkArgv(<<>>, <<>>, <<>>, "square")

(***************************************************************************)
(* main (lines 142-193).                                                   *)
(***************************************************************************)
\* lines 143-165: parse the command line, prompt when no URL was given,
\* normalise
MainStart(av) ==
  /\ mpc = "start"
  /\ argv' = av
  /\ murl' = normalize_url(IF av.url # <<>> THEN av.url ELSE Strip(av.typed))
  /\ mpc' = "check"
  /\ UNCHANGED <<pipeVars, styledOK, prev, mout, exitStatus, genCalls>>

\* lines 166-168
MainReject ==
  /\ mpc = "check"
  /\ ~is_likely_valid_url(murl)
  /\ exitStatus' = 1
  /\ mpc' = "exit"
  /\ UNCHANGED <<pipeVars, styledOK, prev, argv, murl, mout, genCalls>>

\* lines 170-176
MainOutput ==
  /\ mpc = "check"
  /\ is_likely_valid_url(murl)
  /\ mout' = IF argv.output # <<>>
             THEN ensure_png_extension(Strip(argv.output))
             ELSE AutoName(murl)
  /\ mpc' = "call"
  /\ UNCHANGED <<pipeVars, styledOK, prev, argv, murl, exitStatus, genCalls>>

\* lines 178-189: generate_qr is entered
MainCall ==
  /\ mpc = "call"
  /\ pc = "idle"
  /\ Begin(MkArgs(murl, mout, 1, 0, <<"black", "white">>, argv.style,
                  <<None, DefaultLogoPct>>))
  /\ genCalls' = genCalls + 1
  /\ mpc' = "running"
  /\ UNCHANGED <<prev, argv, murl, mout, exitStatus>>

\* lines 190-193: the path is printed, or the error and exit status 1
MainFinish ==
  /\ mpc = "running"
  /\ pc \in {"done", "raised"}
  /\ exitStatus' = IF pc = "done" THEN 0 ELSE 1
  /\ mpc' = "exit"
  /\ UNCHANGED <<pipeVars, styledOK, prev, argv, murl, mout, genCalls>>

(***************************************************************************)
(* Specifications.                                                         *)
(***************************************************************************)
InitPipe ==
  /\ pc = "idle"
  /\ args = NoArgs
  /\ styledOK \in BOOLEAN
  /\ qr = NoQR
  /\ img = NoImage
  /\ base = NoImage
  /\ lg = NoLogo
  /\ err = "none"
  /\ writes = 0
  /\ file \in {NoImage, OldFile}
  /\ file0 = file
  /\ prev = NoPrev
  /\ argv = NoArgv
  /\ murl = <<>>
  /\ mout = <<>>
  /\ exitStatus = -1
  /\ genCalls = 0

\* one call of generate_qr by a library caller
Init == InitPipe /\ mpc = "off"

Next ==
  \/ (pc = "idle" /\ \E a \in Args : Call(a))
  \/ Encode
  \/ RenderStep
  \/ Overlay
  \/ Save

Spec == Init /\ [][Next]_vars

\* calls of generate_qr without a logo, one after the other
NextIdem ==
  \/ (pc = "idle" /\ \E a \in IdemArgs : Call(a))
  \/ (pc \in {"done", "raised"} /\ \E a \in IdemArgs : CallAgain(a))
  \/ Encode
  \/ RenderStep
  \/ Overlay
  \/ Save

SpecIdem == Init /\ [][NextIdem]_vars

\* one run of the script
InitMain == InitPipe /\ mpc = "start"

NextMain ==
  \/ (mpc = "start" /\ \E av \in Argvs : MainStart(av))
  \/ MainReject
  \/ MainOutput
  \/ MainCall
  \/ Encode
  \/ RenderStep
  \/ Overlay
  \/ Save
  \/ MainFinish

SpecMain == InitMain /\ [][NextMain]_vars

(***************************************************************************)
(* Properties.                                                             *)
(***************************************************************************)
\* the rendering stage has produced an image
Rendered == pc \in {"logo", "save", "done"} \/ (pc = "raised" /\ err = "write")

\* the rendering stage has run
RenderTried == Rendered \/ (pc = "raised" /\ err = "render")

\* the logo stage is over
Overlaid == pc \in {"save", "done"} \/ (pc = "raised" /\ err = "write")

\* C1 as stated: the only failures that reach the caller of generate_qr are
\* encoding failures and a failure to write the destination file.
C1_OnlyEncodingOrWrite == pc = "raised" => err \in {"encoding", "write"}

\* C1 amended: a failure that reaches the caller is an encoding failure (the
\* data does not fit), a failure of the plain rendering itself (the
\* rasteriser rejects the colours), or a failure to write; a failure of the
\* styled pathway alone, or of any logo step, is absorbed.
C1_FailuresThatPropagate ==
  pc = "raised" =>
    \/ err = "encoding" /\ ~Fits(qr)
    \/ err = "render" /\ ~PlainOK(args.fill_color, args.back_color)
    \/ err = "write" /\ base = RenderFor(qr, args.fill_color, args.back_color, args.style).img

C1_Witness ==
  /\ pc = "done"
  /\ ~styledOK
  /\ args.style = "vbars"
  /\ lg.fault = "resize"
  /\ file = img

\* C2 as stated: for a style other than square, when the styled pathway is
\* unavailable or raises, _make_styled_image returns the plain square
\* rendering and never surfaces an error.
C2_FallbackNeverRaises ==
  (RenderTried /\ args.style \in SixStyles \ {"square"}
     /\ ~StyledWorks(args.fill_color, args.back_color))
    => (err # "render" /\ base = PlainImage(qr, args.fill_color, args.back_color))

\* C2 amended: in that case _make_styled_image returns exactly the plain
\* square rendering whenever the plain rendering itself succeeds, and
\* surfaces the error of the plain rendering when it does not.
C2_FallbackIsPlain ==
  (RenderTried /\ args.style \in SixStyles \ {"square"}
     /\ ~StyledWorks(args.fill_color, args.back_color))
    => IF PlainOK(args.fill_color, args.back_color)
       THEN err # "render" /\ base = PlainImage(qr, args.fill_color, args.back_color)
       ELSE pc = "raised" /\ err = "render"

C2_Witness ==
  /\ pc = "save"
  /\ ~styledOK
  /\ args.style = "circle"
  /\ args.fill_color = "red"
  /\ base = PlainImage(qr, "red", "white")

\* C3: when the logo path is absent, is not a regular file, cannot be
\* decoded, or a step of decode/resize/composite fails, the image is
\* returned with every pixel unchanged and the image saved is the one the
\* same request without a logo saves.
C3_FailedLogoLeavesImage ==
  (Overlaid /\ lg.reached # "done") =>
    /\ img = base
    /\ base = RenderFor(qr, args.fill_color, args.back_color, args.style).img
    /\ pc = "done" => file = base

C3_Witness ==
  /\ pc = "done"
  /\ args.logo_path = "logo.png"
  /\ lg.fault = "paste"
  /\ file = base

Clamp(v, lo, hi) == IF v < lo THEN lo ELSE IF v > hi THEN hi ELSE v

\* C4: for every integer sizePercent, 0 and negative values included, the
\* percentage used to size the logo is clamp(sizePercent, 5, 40).
C4_PctIsClamped ==
  lg.reached \in {"resize", "paste", "done"} =>
    lg.pct = Clamp(args.logo_size, MinLogoPct, MaxLogoPct)

\* C5: a call writes the destination at most once, only after encoding,
\* rendering and the logo overlay are over; an error in an earlier stage
\* leaves the destination as it was, and a call that returns has written
\* exactly once.
C5_OneWriteAtTheEnd ==
  /\ writes <= 1
  /\ pc \in {"encode", "render", "logo", "save"} => (writes = 0 /\ file = file0)
  /\ (pc = "raised" /\ err \in {"encoding", "render"}) => (writes = 0 /\ file = file0)
  /\ pc = "done" => (writes = 1 /\ file = img)

C5_Witness ==
  /\ pc = "done"
  /\ writes = 1
  /\ lg.reached = "done"
  /\ file0 = OldFile
  /\ file = img

InBox(p) ==
  /\ p[1] \in lg.pos[1] .. (lg.pos[1] + lg.tw - 1)
  /\ p[2] \in lg.pos[2] .. (lg.pos[2] + lg.th - 1)

\* C7: a composited logo has its top-left corner at
\* (floor((W - targetWidth)/2), floor((H - targetHeight)/2)); the image
\* differs from the base image only inside that box (an opaque logo fills
\* the box).
C7_LogoCentredInBox ==
  (Overlaid /\ lg.reached = "done") =>
    /\ 2 * lg.pos[1] <= base.w - lg.tw
    /\ base.w - lg.tw < 2 * lg.pos[1] + 2
    /\ 2 * lg.pos[2] <= base.h - lg.th
    /\ base.h - lg.th < 2 * lg.pos[2] + 2
    /\ DOMAIN img.px = DOMAIN base.px
    /\ \A p \in DOMAIN base.px : ~InBox(p) => img.px[p] = base.px[p]
    /\ args.logo_path = "tall.png" =>
         \A p \in DOMAIN base.px : InBox(p) <=> img.px[p] = "logo"

C7_Witness ==
  /\ pc = "save"
  /\ lg.reached = "done"
  /\ args.logo_path = "tall.png"
  /\ lg.pos[2] < 0
  /\ (base.h - lg.th) % 2 = 1
  /\ img # base

\* C8: the image to save is (matrixSide + 2*border) * boxSize pixels wide
\* and high, whatever the style, the fallback and the logo.
C8_ImageSide ==
  Overlaid =>
    LET n == (qr.side + 2 * args.border) * args.box_size
    IN /\ img.w = n
       /\ img.h = n
       /\ DOMAIN img.px = Pixels(n, n)
       /\ pc = "done" => (file.w = n /\ file.h = n)

C8_Witness ==
  /\ pc = "done"
  /\ lg.reached = "done"
  /\ args.style = "vbars"
  /\ ~styledOK
  /\ args.border = MaxBorder
  /\ file.w = (qr.side + 2 * MaxBorder) * args.box_size

\* C9: two calls with the same arguments and no logo save the same image.
C9_SameArgsSameImage ==
  (pc = "done" /\ prev.set /\ prev.key = Key(args)) => file = prev.image

C9_Witness ==
  /\ pc = "done"
  /\ prev.set
  /\ prev.key = Key(args)
  /\ args.style = "gapped"
  /\ file = prev.image

\* C10: main calls generate_qr only with a URL that is_likely_valid_url
\* accepts and an output path whose extension is .png (case-insensitively);
\* an invalid URL ends the run with status 1, no call and no write.
C10_MainCallsWithValidUrlAndPng ==
  /\ genCalls > 0 =>
       /\ is_likely_valid_url(args.url)
       /\ Lower(splitext(args.output_path).ext) = <<".", "png">>
  /\ (mpc = "exit" /\ ~is_likely_valid_url(murl)) =>
       (exitStatus = 1 /\ genCalls = 0 /\ writes = 0 /\ file = file0)

====
